---- MODULE Spec2Model ----
(***************************************************************************)
(* Model of app.py: the dataset tables loaded at start-up (data_files),    *)
(* and the Dash callback update_plots(file1, file2, color_columns) that    *)
(* merges two tables on "position", colours the merged rows, and builds a  *)
(* scatter figure and two heatmap figures.                                 *)
(*                                                                         *)
(* Numbers: scores are integers in units of 10^-5; a score formatted with  *)
(* "{:.4f}" is an integer in units of 10^-4.                               *)
(***************************************************************************)
EXTENDS Integers, Sequences, FiniteSets, TLC

VARIABLES data_files, file1, file2, color_columns, response

vars == <<data_files, file1, file2, color_columns, response>>

-----------------------------------------------------------------------------
(* Bounds of the model *)

MaxRows == 2

-----------------------------------------------------------------------------
(* Generic helpers *)

Range(s) == {s[i] : i \in 1..Len(s)}

IndexOf(s, x) == CHOOSE i \in 1..Len(s) : s[i] = x

RECURSIVE Concat(_)
Concat(ss) == IF ss = <<>> THEN <<>> ELSE Head(ss) \o Concat(Tail(ss))

-----------------------------------------------------------------------------
(* The page: the three selector widgets *)

None == "None"

FileNames == {"a.csv", "b.csv"}

FlagOptions == {"site_1", "site_2", "ab8307_site", "ab8314_site", "c_c"}

NoSelection == [none |-> TRUE, items |-> <<>>]

Selected(s) == [none |-> FALSE, items |-> s]

FileChoices == FileNames \cup {None}

-----------------------------------------------------------------------------
(* Dataset tables: [columns |-> sequence of names, rows |-> sequence of    *)
(* functions from column name to cell value]                               *)

AminoAcids(f) == IF f = "a.csv" THEN <<"A", "M", "Y">> ELSE <<"A", "C", "M", "Y">>

FlagColumns(f) ==
    IF f = "a.csv" THEN <<"site_1", "site_2", "ab8307_site", "ab8314_site", "c_c">>
    ELSE <<"site_1", "site_2", "ab8307_site", "c_c">>

Columns(f) == <<"position", "wt_aa", "median_score">> \o AminoAcids(f) \o FlagColumns(f)

WtOf(f, i) == IF f = "a.csv" THEN (IF i % 2 = 1 THEN "M" ELSE "K")
              ELSE (IF i % 2 = 1 THEN "G" ELSE "M")

MedianOf(f, i) == IF f = "a.csv" THEN 12344 - 20001 * i ELSE 30106 * i - 45678

ScoreOf(f, i, aa) ==
    LET k == IndexOf(AminoAcids(f), aa)
    IN  IF f = "a.csv" THEN 1112 * i + 10 * k - 2000 ELSE 8003 - 2221 * i - 10 * k

YesAt(f, i, pos) ==
    IF f = "a.csv"
    THEN (IF pos = 1 /\ i = 1 THEN FlagOptions
          ELSE IF pos = 1 THEN {"site_2", "ab8307_site"}
          ELSE IF i % 2 = 0 THEN {"site_1", "c_c"}
          ELSE IF i = 1 THEN {"ab8314_site"}
          ELSE {})
    ELSE (IF pos = 1 /\ i = 1 THEN {"site_2"}
          ELSE IF pos = 1 THEN {}
          ELSE IF i % 2 = 0 THEN {"site_1", "site_2", "ab8307_site", "c_c"}
          ELSE {"c_c", "site_1"})

Positions == {1, 2}

(* positions in file order: position is the ordering key of a table *)
PosSeqs ==
    UNION {{s \in [1..n -> Positions] : \A i \in 1..(n - 1) : s[i] <= s[i + 1]}
           : n \in 1..MaxRows}

MkRow(f, i, pos) ==
    [c \in Range(Columns(f)) |->
        IF c = "position" THEN pos
        ELSE IF c = "wt_aa" THEN WtOf(f, i)
        ELSE IF c = "median_score" THEN MedianOf(f, i)
        ELSE IF c \in Range(AminoAcids(f)) THEN ScoreOf(f, i, c)
        ELSE IF c \in YesAt(f, i, pos) THEN "yes" ELSE "no"]

MkTable(f, poss) ==
    [columns |-> Columns(f),
     rows    |-> [i \in 1..Len(poss) |-> MkRow(f, i, poss[i])]]

Tables(f) == {MkTable(f, poss) : poss \in PosSeqs}

-----------------------------------------------------------------------------
(* pd.merge(df1, df2, on="position", suffixes=("_1", "_2")): inner join,   *)
(* rows in the order of the left table, then of the right table            *)

(* the names c + "_1" and c + "_2" of the columns c of the data model *)
SuffixTable ==
    [wt_aa        |-> <<"wt_aa_1", "wt_aa_2">>,
     median_score |-> <<"median_score_1", "median_score_2">>,
     A            |-> <<"A_1", "A_2">>,
     C            |-> <<"C_1", "C_2">>,
     M            |-> <<"M_1", "M_2">>,
     Y            |-> <<"Y_1", "Y_2">>,
     site_1       |-> <<"site_1_1", "site_1_2">>,
     site_2       |-> <<"site_2_1", "site_2_2">>,
     ab8307_site  |-> <<"ab8307_site_1", "ab8307_site_2">>,
     ab8314_site  |-> <<"ab8314_site_1", "ab8314_site_2">>,
     c_c          |-> <<"c_c_1", "c_c_2">>]

WithSuffix(c, k) == SuffixTable[c][k]

LeftNames == {SuffixTable[c][1] : c \in DOMAIN SuffixTable}

RightNames == {SuffixTable[c][2] : c \in DOMAIN SuffixTable}

BaseName == [n \in LeftNames \cup RightNames |->
                CHOOSE c \in DOMAIN SuffixTable : n \in Range(SuffixTable[c])]

Overlap(df1, df2) == (Range(df1.columns) \cap Range(df2.columns)) \ {"position"}

LeftName(overlap, c) == IF c \in overlap THEN WithSuffix(c, 1) ELSE c

RightName(overlap, c) == IF c \in overlap THEN WithSuffix(c, 2) ELSE c

MergedColumns(df1, df2) ==
    LET overlap == Overlap(df1, df2)
    IN  [k \in 1..Len(df1.columns) |-> LeftName(overlap, df1.columns[k])]
        \o SelectSeq([k \in 1..Len(df2.columns) |-> RightName(overlap, df2.columns[k])],
                     LAMBDA n : n # "position")

JoinRow(names, l, r) ==
    [n \in names |->
        IF n \in LeftNames THEN l[BaseName[n]]
        ELSE IF n \in RightNames THEN r[BaseName[n]]
        ELSE IF n \in DOMAIN l THEN l[n]
        ELSE r[n]]

(* a lookup that keeps one matching row where the join keeps them all *)
MatchesFirst(df2, l) ==
    LET m == SelectSeq(df2.rows, LAMBDA r : r["position"] = l["position"])
    IN  IF m = <<>> THEN <<>> ELSE <<Head(m)>>

Matches(df2, l) == SelectSeq(df2.rows, LAMBDA r : r["position"] = l["position"])

Merge(df1, df2) ==
    LET columns == MergedColumns(df1, df2)
        names   == Range(columns)
    IN  [columns |-> columns,
         rows    |-> Concat([i \in 1..Len(df1.rows) |->
                              LET l == df1.rows[i]
                                  m == Matches(df2, l)
                              IN  [j \in 1..Len(m) |-> JoinRow(names, l, m[j])]])]

-----------------------------------------------------------------------------
(* Colour categories *)

MaxColorColumns == 4

Truthy(cc) == ~cc.none /\ cc.items # <<>>

(* the selection passed on whole *)
TruncateNothing(cc) == cc

Truncate(cc) ==
    IF Truthy(cc)
    THEN Selected(SubSeq(cc.items, 1,
                         IF Len(cc.items) < MaxColorColumns THEN Len(cc.items)
                         ELSE MaxColorColumns))
    ELSE cc

color_map ==
    [c \in FlagOptions |->
        CASE c = "site_1"      -> "green"
          [] c = "site_2"      -> "blue"
          [] c = "ab8307_site" -> "violet"
          [] c = "ab8314_site" -> "darkbrown"
          [] c = "c_c"         -> "orange"]

ColorOf(col) == IF col \in DOMAIN color_map THEN color_map[col] ELSE "gray"

ColorCol == "color"

InitColor(merged) ==
    [columns |-> IF ColorCol \in Range(merged.columns) THEN merged.columns
                 ELSE Append(merged.columns, ColorCol),
     rows    |-> [i \in 1..Len(merged.rows) |->
                    [n \in DOMAIN merged.rows[i] \cup {ColorCol} |->
                        IF n = ColorCol THEN "gray" ELSE merged.rows[i][n]]]]

(* an overwrite that spares the rows an earlier column coloured *)
RecolorFirstWins(rows, col) ==
    [i \in 1..Len(rows) |->
        IF rows[i][WithSuffix(col, 1)] = "yes" /\ rows[i][ColorCol] = "gray"
        THEN [rows[i] EXCEPT ![ColorCol] = ColorOf(col)]
        ELSE rows[i]]

(* an overwrite without the row mask *)
RecolorEveryRow(rows, col) ==
    [i \in 1..Len(rows) |-> [rows[i] EXCEPT ![ColorCol] = ColorOf(col)]]

Recolor(rows, col) ==
    [i \in 1..Len(rows) |->
        IF rows[i][WithSuffix(col, 1)] = "yes"
        THEN [rows[i] EXCEPT ![ColorCol] = ColorOf(col)]
        ELSE rows[i]]

(* the loop over the selected columns; a column the merged view lacks      *)
(* raises KeyError and leaves the view as the earlier columns made it      *)
RECURSIVE ColorLoop(_, _)
ColorLoop(merged, cols) ==
    IF cols = <<>> THEN [merged_df |-> merged, error |-> "none"]
    ELSE IF WithSuffix(Head(cols), 1) \notin Range(merged.columns)
    THEN [merged_df |-> merged, error |-> "KeyError"]
    ELSE ColorLoop([merged EXCEPT !.rows = Recolor(merged.rows, Head(cols))], Tail(cols))

AssignColors(merged, cc) ==
    IF Truthy(cc) THEN ColorLoop(InitColor(merged), cc.items)
    ELSE [merged_df |-> InitColor(merged), error |-> "none"]

-----------------------------------------------------------------------------
(* Scatter figure *)

Column(df, n) == [i \in 1..Len(df.rows) |-> df.rows[i][n]]

RECURSIVE DistinctInOrder(_)
DistinctInOrder(s) ==
    IF s = <<>> THEN <<>>
    ELSE <<Head(s)>> \o DistinctInOrder(SelectSeq(Tail(s), LAMBDA v : v # Head(s)))

Point(row) ==
    [x |-> row["median_score_1"],
     y |-> row["median_score_2"],
     position |-> row["position"]]

(* px.scatter(..., color="color"): one trace per category, in order of     *)
(* first appearance, holding the rows of that category                     *)
Traces(df) ==
    LET names == DistinctInOrder(Column(df, ColorCol))
    IN  [k \in 1..Len(names) |->
            [name   |-> names[k],
             points |-> LET sel == SelectSeq(df.rows, LAMBDA r : r[ColorCol] = names[k])
                        IN  [i \in 1..Len(sel) |-> Point(sel[i])]]]

(* annotations without the filter on the category *)
AnnotationsEveryRow(df) ==
    [i \in 1..Len(df.rows) |->
        [x    |-> df.rows[i]["median_score_1"],
         y    |-> df.rows[i]["median_score_2"],
         text |-> df.rows[i]["position"]]]

Annotations(df) ==
    LET sel == SelectSeq(df.rows, LAMBDA r : r[ColorCol] # "gray")
    IN  [i \in 1..Len(sel) |->
            [x    |-> sel[i]["median_score_1"],
             y    |-> sel[i]["median_score_2"],
             text |-> sel[i]["position"]]]

Min(s) == CHOOSE v \in Range(s) : \A w \in Range(s) : v <= w

Max(s) == CHOOSE v \in Range(s) : \A w \in Range(s) : v >= w

ScatterFig(df, f1, f2) ==
    [empty       |-> FALSE,
     traces      |-> Traces(df),
     annotations |-> Annotations(df),
     title       |-> <<f1, f2>>,
     vline       |-> LET ys == Column(df, "median_score_2")
                     IN  [x0 |-> 0, y0 |-> Min(ys), x1 |-> 0, y1 |-> Max(ys)],
     hline       |-> LET xs == Column(df, "median_score_1")
                     IN  [x0 |-> Min(xs), y0 |-> 0, x1 |-> Max(xs), y1 |-> 0]]

-----------------------------------------------------------------------------
(* Heatmap figures *)

(* df.loc[:, "A":"Y"].columns: the columns from label A to label Y *)
LocSlice(df) == SubSeq(df.columns, IndexOf(df.columns, "A"), IndexOf(df.columns, "Y"))

(* df.loc[:, "A":"Y"].values.T *)
ValuesT(df) ==
    LET cols == LocSlice(df)
    IN  [k \in 1..Len(cols) |-> [i \in 1..Len(df.rows) |-> df.rows[i][cols[k]]]]

(* "{:.4f}" of a score in units of 10^-5: units of 10^-4, half to even *)
Fmt4(v) ==
    LET q == v \div 10
        r == v % 10
    IN  IF r > 5 \/ (r = 5 /\ q % 2 = 1) THEN q + 1 ELSE q

HoverText(df) ==
    LET cols == LocSlice(df)
        z    == ValuesT(df)
    IN  [k \in 1..Len(cols) |->
            [i \in 1..Len(df.rows) |->
                [position |-> df.rows[i]["position"],
                 wt       |-> df.rows[i]["wt_aa"],
                 variant  |-> cols[k],
                 score    |-> Fmt4(z[k][i]),
                 median   |-> Fmt4(df.rows[i]["median_score"])]]]

HeatmapFig(df, text, title, ticktext) ==
    [empty    |-> FALSE,
     z        |-> ValuesT(df),
     x        |-> Column(df, "position"),
     y        |-> LocSlice(df),
     text     |-> text,
     title    |-> title,
     ticktext |-> ticktext]

(* the first heatmap drawn from the second table *)
heatmap_fig1_other(df1, df2, f1) == HeatmapFig(df2, HoverText(df2), f1, LocSlice(df2))

heatmap_fig1(df1, df2, f1) == HeatmapFig(df1, HoverText(df2), f1, LocSlice(df2))

heatmap_fig2(df1, df2, f2) == HeatmapFig(df2, HoverText(df2), f2, LocSlice(df2))

-----------------------------------------------------------------------------
(* The callback *)

EmptyFig == [empty |-> TRUE]

NoView == [columns |-> <<>>, rows |-> <<>>]

(* the guard without the same-file test *)
GuardUnselectedOnly(f1, f2) == f1 = None \/ f2 = None

Guard(f1, f2) == f1 = None \/ f2 = None \/ f1 = f2

Returned(scatter, h1, h2, view) ==
    [status |-> "returned", error |-> "none",
     scatter |-> scatter, heatmap1 |-> h1, heatmap2 |-> h2, merged_df |-> view]

(* the exception swallowed and three empty figures returned *)
FaultedAsEmpty(error, view) ==
    [status |-> "returned", error |-> "none",
     scatter |-> EmptyFig, heatmap1 |-> EmptyFig, heatmap2 |-> EmptyFig, merged_df |-> view]

Faulted(error, view) ==
    [status |-> "fault", error |-> error,
     scatter |-> EmptyFig, heatmap1 |-> EmptyFig, heatmap2 |-> EmptyFig, merged_df |-> view]

(* the result of update_plots(f1, f2, cc) over the tables files *)
Compute(files, f1, f2, cc) ==
    IF Guard(f1, f2) THEN Returned(EmptyFig, EmptyFig, EmptyFig, NoView)
    ELSE LET df1 == files[f1]
             df2 == files[f2]
             col == AssignColors(Merge(df1, df2), Truncate(cc))
         IN  IF col.error # "none" THEN Faulted(col.error, col.merged_df)
             ELSE IF col.merged_df.rows = <<>> THEN Faulted("ValueError", col.merged_df)
             ELSE Returned(ScatterFig(col.merged_df, f1, f2),
                           heatmap_fig1(df1, df2, f1),
                           heatmap_fig2(df1, df2, f2),
                           col.merged_df)

(* the colour column written into the first source table *)
update_plots_in_place(f1, f2, cc) ==
    /\ file1' = f1
    /\ file2' = f2
    /\ color_columns' = cc
    /\ response' = Compute(data_files, f1, f2, cc)
    /\ data_files' = IF f1 = None \/ f2 = None \/ f1 = f2 THEN data_files
                     ELSE [data_files EXCEPT ![f1] =
                              [columns |-> Append(@.columns, ColorCol),
                               rows    |-> [i \in 1..Len(@.rows) |->
                                              [n \in DOMAIN @.rows[i] \cup {ColorCol} |->
                                                  IF n = ColorCol THEN "gray"
                                                  ELSE @.rows[i][n]]]]]

update_plots(f1, f2, cc) ==
    /\ file1' = f1
    /\ file2' = f2
    /\ color_columns' = cc
    /\ response' = Compute(data_files, f1, f2, cc)
    /\ UNCHANGED data_files

-----------------------------------------------------------------------------
(* The events that fire the callback: the first rendering of the page and  *)
(* a change of one of the three dropdowns                                  *)

Idle == [status |-> "none", error |-> "none",
         scatter |-> EmptyFig, heatmap1 |-> EmptyFig, heatmap2 |-> EmptyFig,
         merged_df |-> NoView]

Remove(s, k) == SubSeq(s, 1, k - 1) \o SubSeq(s, k + 1, Len(s))

Init ==
    /\ data_files \in {[f \in FileNames |-> IF f = "a.csv" THEN ta ELSE tb]
                          : ta \in Tables("a.csv"), tb \in Tables("b.csv")}
    /\ file1 = None
    /\ file2 = None
    /\ color_columns = NoSelection
    /\ response = Idle

page_load ==
    /\ response.status = "none"
    /\ update_plots(file1, file2, color_columns)

file1_dropdown ==
    /\ response.status # "none"
    /\ \E f \in FileChoices \ {file1} : update_plots(f, file2, color_columns)

file2_dropdown ==
    /\ response.status # "none"
    /\ \E f \in FileChoices \ {file2} : update_plots(file1, f, color_columns)

color_dropdown_add ==
    /\ response.status # "none"
    /\ \E c \in FlagOptions \ Range(color_columns.items) :
           update_plots(file1, file2, Selected(Append(color_columns.items, c)))

color_dropdown_remove ==
    /\ response.status # "none"
    /\ \E k \in 1..Len(color_columns.items) :
           update_plots(file1, file2, Selected(Remove(color_columns.items, k)))

color_dropdown_clear ==
    /\ response.status # "none"
    /\ color_columns.items # <<>>
    /\ update_plots(file1, file2, Selected(<<>>))

Next ==
    \/ page_load
    \/ file1_dropdown
    \/ file2_dropdown
    \/ color_dropdown_add
    \/ color_dropdown_remove
    \/ color_dropdown_clear

Spec == Init /\ [][Next]_vars

-----------------------------------------------------------------------------
(* Properties *)

Called == response.status # "none"

(* the last call passed the guard: two distinct selected files *)
Joined == Called /\ file1 # None /\ file2 # None /\ file1 # file2

df1 == data_files[file1]

df2 == data_files[file2]

view == response.merged_df

PositionsOf(df) == {df.rows[i]["position"] : i \in 1..Len(df.rows)}

SharedPositions == PositionsOf(df1) \cap PositionsOf(df2)

RowsAt(df, p) == Cardinality({i \in 1..Len(df.rows) : df.rows[i]["position"] = p})

(* the pairs of a row of df1 and a row of df2 at the position p *)
Pairs(p) == RowsAt(df1, p) * RowsAt(df2, p)

RECURSIVE SumPairs(_)
SumPairs(S) ==
    IF S = {} THEN 0
    ELSE LET p == CHOOSE q \in S : TRUE IN Pairs(p) + SumPairs(S \ {p})

FirstFour == SubSeq(color_columns.items, 1,
                    IF Len(color_columns.items) < 4 THEN Len(color_columns.items) ELSE 4)

(* the places of the first four selected columns whose flag is "yes" in the row *)
YesPlaces(row) ==
    {k \in 1..Len(FirstFour) :
        WithSuffix(FirstFour[k], 1) \in DOMAIN row /\ row[WithSuffix(FirstFour[k], 1)] = "yes"}

Last(S) == CHOOSE k \in S : \A j \in S : j <= k

Mapped(col) ==
    CASE col = "site_1"      -> "green"
      [] col = "site_2"      -> "blue"
      [] col = "ab8307_site" -> "violet"
      [] col = "ab8314_site" -> "darkbrown"
      [] col = "c_c"         -> "orange"

AllEmpty == response.scatter.empty /\ response.heatmap1.empty /\ response.heatmap2.empty

(* C1: a call with file1 unselected, file2 unselected or file1 = file2      *)
(* returns three empty figures whatever the flag selection is, without a   *)
(* lookup or join, so it cannot fault.                                     *)
C1_GuardReturnsEmpty ==
    (Called /\ (file1 = None \/ file2 = None \/ file1 = file2)) =>
        /\ response.status = "returned"
        /\ response.error = "none"
        /\ AllEmpty
        /\ view = NoView

C1_Witness ==
    /\ Called
    /\ file1 = file2
    /\ file1 # None
    /\ Len(color_columns.items) > 1
    /\ response.status = "returned"
    /\ AllEmpty

(* C2, as stated: the merged view of two distinct files has as many rows   *)
(* as there are position values occurring in both tables.                  *)
C2_RowsEqualSharedPositions ==
    Joined => Len(view.rows) = Cardinality(SharedPositions)

(* C2, amended: the merged view has one row for every pair of a row of the *)
(* first table and a row of the second table with equal position, that is  *)
(* the sum over the shared positions of the product of their row counts.   *)
C2_RowsEqualMatchingPairs ==
    Joined =>
        /\ Len(view.rows) = SumPairs(SharedPositions)
        /\ (\A p \in SharedPositions : Pairs(p) = 1)
              => Len(view.rows) = Cardinality(SharedPositions)

C2_Witness ==
    /\ Joined
    /\ \E p \in SharedPositions : RowsAt(df1, p) > 1 /\ RowsAt(df2, p) > 1
    /\ Len(view.rows) > Cardinality(SharedPositions)

(* C3: a merged row whose flag is "yes" for more than one of the first     *)
(* four selected columns ends with the category of the one of them that    *)
(* comes latest in the selection.                                          *)
C3_LastSelectedWins ==
    (Joined /\ response.error # "KeyError") =>
        \A i \in 1..Len(view.rows) :
            Cardinality(YesPlaces(view.rows[i])) > 1 =>
                view.rows[i]["color"] = Mapped(FirstFour[Last(YesPlaces(view.rows[i]))])

C3_Witness ==
    /\ Joined
    /\ response.status = "returned"
    /\ color_columns.items = <<"site_1", "c_c">>
    /\ \E i \in 1..Len(view.rows) :
          /\ view.rows[i]["site_1_1"] = "yes"
          /\ view.rows[i]["c_c_1"] = "yes"
          /\ view.rows[i]["color"] = "orange"

(* C4: a merged row in which none of the selected flag columns is "yes"    *)
(* has the category "gray", for every selection, the empty and the unset   *)
(* one included; a row has another category only if a selected flag is     *)
(* "yes" in it.                                                            *)
C4_DefaultWithoutFlag ==
    Joined =>
        \A i \in 1..Len(view.rows) :
            /\ YesPlaces(view.rows[i]) = {} => view.rows[i]["color"] = "gray"
            /\ view.rows[i]["color"] # "gray" =>
                  \E k \in 1..Len(color_columns.items) :
                      /\ WithSuffix(color_columns.items[k], 1) \in DOMAIN view.rows[i]
                      /\ view.rows[i][WithSuffix(color_columns.items[k], 1)] = "yes"

C4_Witness ==
    /\ Joined
    /\ response.status = "returned"
    /\ Len(color_columns.items) > 1
    /\ \E i, j \in 1..Len(view.rows) :
          /\ YesPlaces(view.rows[i]) = {}
          /\ view.rows[i]["color"] = "gray"
          /\ view.rows[j]["color"] # "gray"

(* C5: a call with more than four selected columns gives what the call     *)
(* with the first four of them gives, and the entries after the fourth     *)
(* raise no error.                                                         *)
C5_TruncatedToFour ==
    (Joined /\ Len(color_columns.items) > 4) =>
        /\ response = Compute(data_files, file1, file2, Selected(FirstFour))
        /\ (\A k \in 1..4 : WithSuffix(FirstFour[k], 1) \in Range(view.columns))
              => response.error # "KeyError"
        /\ \A i \in 1..Len(view.rows) :
              view.rows[i]["color"] # "gray" => YesPlaces(view.rows[i]) # {}

C5_Witness ==
    /\ Joined
    /\ response.status = "returned"
    /\ Len(color_columns.items) > 4
    /\ \/ WithSuffix(color_columns.items[5], 1) \notin Range(view.columns)
       \/ \E i \in 1..Len(view.rows) :
             /\ view.rows[i][WithSuffix(color_columns.items[5], 1)] = "yes"
             /\ view.rows[i]["color"] # Mapped(color_columns.items[5])

(* the hover text of a heatmap is that of the table df *)
HoverOf(fig, df) ==
    /\ Len(fig.text) = Len(fig.z)
    /\ \A k \in 1..Len(fig.z) :
          /\ Len(fig.text[k]) = Len(fig.z[k])
          /\ \A i \in 1..Len(fig.z[k]) :
                /\ fig.text[k][i].position = df.rows[i]["position"]
                /\ fig.text[k][i].wt = df.rows[i]["wt_aa"]
                /\ fig.text[k][i].variant = fig.y[k]
                /\ fig.text[k][i].score = Fmt4(df.rows[i][fig.y[k]])
                /\ fig.text[k][i].median = Fmt4(df.rows[i]["median_score"])

(* C6: the hover text of each heatmap has the shape of the heatmap's value *)
(* grid and carries, cell by cell, the position, wild-type residue,        *)
(* variant residue, score and median score of the heatmap's own table.     *)
C6_HoverFromOwnTable ==
    (Joined /\ response.status = "returned") =>
        /\ HoverOf(response.heatmap1, df1)
        /\ HoverOf(response.heatmap2, df2)

(* the value grid of a heatmap is the transposed score block of the table  *)
GridOf(fig, df, aa) ==
    /\ fig.x = [i \in 1..Len(df.rows) |-> df.rows[i]["position"]]
    /\ fig.y = aa
    /\ Len(fig.z) = Len(aa)
    /\ \A k \in 1..Len(aa) :
          /\ Len(fig.z[k]) = Len(df.rows)
          /\ \A i \in 1..Len(df.rows) : fig.z[k][i] = df.rows[i][aa[k]]

C8_TablesImmutable == [][data_files' = data_files]_vars

C8_Witness ==
    /\ Joined
    /\ response.status = "returned"
    /\ "color" \in Range(view.columns)
    /\ "median_score_1" \in Range(view.columns)
    /\ \A f \in FileNames : data_files[f] \in Tables(f)

RECURSIVE SumSeq(_)
SumSeq(s) == IF s = <<>> THEN 0 ELSE Head(s) + SumSeq(Tail(s))

AnnotationOf(row) ==
    [x |-> row["median_score_1"], y |-> row["median_score_2"], text |-> row["position"]]

Coloured == {i \in 1..Len(view.rows) : view.rows[i]["color"] # "gray"}

(* C9: the scatter has one point per merged row, and its annotations are   *)
(* the position labels of exactly the rows whose category is not "gray",   *)
(* each of them once.                                                      *)
C9_AnnotationsOnColouredRows ==
    (Joined /\ response.status = "returned") =>
        LET fig == response.scatter
            ann == fig.annotations
        IN  /\ SumSeq([k \in 1..Len(fig.traces) |-> Len(fig.traces[k].points)])
                  = Len(view.rows)
            /\ Len(ann) = Cardinality(Coloured)
            /\ \A j \in 1..Len(ann) : \E i \in Coloured : ann[j] = AnnotationOf(view.rows[i])
            /\ \A i \in Coloured :
                  Cardinality({j \in 1..Len(ann) : ann[j] = AnnotationOf(view.rows[i])})
                    = Cardinality({h \in Coloured :
                                      AnnotationOf(view.rows[h]) = AnnotationOf(view.rows[i])})

C9_Witness ==
    /\ Joined
    /\ response.status = "returned"
    /\ Coloured # {}
    /\ Cardinality(Coloured) < Len(view.rows)
    /\ Len(response.scatter.annotations) = Cardinality(Coloured)

(* C10: a call on two distinct files that share no position value returns  *)
(* no figure: it faults, on the bounds of the zero-reference lines unless  *)
(* a selected column has already faulted, with no output for any region.   *)
C10_EmptyJoinFaults ==
    (Joined /\ SharedPositions = {}) =>
        /\ response.status = "fault"
        /\ response.error \in {"ValueError", "KeyError"}
        /\ (\A k \in 1..Len(FirstFour) : WithSuffix(FirstFour[k], 1) \in Range(view.columns))
              => response.error = "ValueError"
        /\ AllEmpty
        /\ view.rows = <<>>

C10_Witness ==
    /\ Joined
    /\ SharedPositions = {}
    /\ Len(color_columns.items) > 0
    /\ response.status = "fault"
    /\ response.error = "ValueError"

====
